---------------------------- MODULE Spec2Model ----------------------------
(***************************************************************************)
(* RABIES bold preprocessing: the confound design matrix                   *)
(* (workflows/preprocess_bold_pkg/confounds.py) and the reference image,   *)
(* split/merge and per-frame transform interfaces                          *)
(* (workflows/preprocess_bold_pkg/utils.py).                               *)
(*                                                                         *)
(* Conventions.  Python indices are 0-based and TLA+ sequences 1-based:    *)
(* python's table[r, c] is table[r+1][c+1] here.  Real values are small    *)
(* integers; where the code divides (a median of an even number of values, *)
(* a ratio) the model keeps the value multiplied by the stated factor so   *)
(* that no rounding is introduced.  An exception that leaves a function is *)
(* the record Raise(kind, info).                                           *)
(***************************************************************************)
EXTENDS Integers, Sequences, FiniteSets, TLC

VARIABLES
    pc,             \* position of the running interface
    exc,            \* the exception that ended the run, or NoExc
    movpar_csv,     \* rows of the motion parameter file, header row first
    motion_24,      \* value returned by motion_24_params
    method,         \* aCompCor_method
    mask_timeseries,    \* shape of the masked, standardized voxel series
    explained_variance, \* pca.explained_variance_ratio_ of the first fit
    aCompCor,       \* value returned by compute_aCompCor
    fs,             \* the files written so far: path -> content
    bold,           \* ConfoundRegression.inputs.bold: file name and frame count
    WM_pca,         \* voxels of the WM mask and the variance ratios of its PCA
    CSF_pca,        \* the same for the CSF mask
    numpy_ragged,   \* what the installed numpy makes of a ragged list
    confounds,      \* the list of data columns of ConfoundRegression
    csv_columns,    \* the list of column names of ConfoundRegression
    confounds_csv,  \* the attribute behind the confounds_csv output
    in_file,        \* the input series: its file name and its image
    volumes,        \* the list of files returned by split_volumes
    num_volumes,    \* the count returned by split_volumes
    out_file,       \* the attribute behind the out_file output of Merge
    global_signal,  \* the trace handed to is_outlier
    n_volumes_to_discard,   \* the count returned by _get_vols_to_discard
    slice_fname,    \* the file of candidate frames given to the solver
    ref_file,       \* the file of the target given to the solver
    second,         \* antsMotionCorr.inputs.second of the pass under way
    solver_calls,   \* the invocations of antsMotionCorr so far
    mc_corrected_bold,      \* res.outputs.mc_corrected_bold of the last pass
    dirs,           \* the directories of the working directory
    ref_image,      \* the attribute behind the ref_image output
    skip_vols,      \* the attribute behind the n_volumes_to_discard output
    xforms,         \* applyTransforms.inputs.xforms: the 5-D transform series
    use_fieldwarp,  \* applyTransforms.inputs.use_fieldwarp
    bold_volumes,   \* the files of the frames of the input series
    split_xform,    \* the files of the per-frame transforms
    warped_volumes, \* the list of output files collected by the loop
    x_index,        \* x, the loop index of applyTransforms
    at,             \* the inputs of the ApplyTransforms interface
    resample_calls, \* the invocations of antsApplyTransforms so far
    stdout,         \* the lines printed by the loop
    out_files       \* the attribute behind the out_files output

commonVars == <<pc, exc, fs>>
motionVars == <<movpar_csv, motion_24>>
compVars == <<method, mask_timeseries, explained_variance, aCompCor>>
confVars == <<bold, WM_pca, CSF_pca, numpy_ragged, confounds, csv_columns,
              confounds_csv>>
splitVars == <<in_file, volumes, num_volumes, out_file>>
refVars == <<global_signal, n_volumes_to_discard, slice_fname, ref_file,
             second, solver_calls, mc_corrected_bold, dirs, ref_image,
             skip_vols>>
vars == <<pc, exc, fs, movpar_csv, motion_24,
          method, mask_timeseries, explained_variance, aCompCor,
          bold, WM_pca, CSF_pca, numpy_ragged, confounds, csv_columns,
          confounds_csv, in_file, volumes, num_volumes, out_file,
          global_signal, n_volumes_to_discard, slice_fname, ref_file,
          second, solver_calls, mc_corrected_bold, dirs, ref_image,
          skip_vols, xforms, use_fieldwarp, bold_volumes, split_xform,
          warped_volumes, x_index, at, resample_calls, stdout, out_files>>
applyVars == <<xforms, use_fieldwarp, bold_volumes, split_xform,
               warped_volumes, x_index, at, resample_calls, stdout, out_files>>
\* the variables each interface leaves alone
restMotion == <<compVars, confVars, splitVars, refVars, applyVars>>
restComp == <<motionVars, confVars, splitVars, refVars, applyVars>>
restConf == <<splitVars, refVars, applyVars>>
restSplit == <<motionVars, compVars, confVars, refVars, applyVars>>
restOutlier == <<motionVars, compVars, confVars, splitVars, applyVars>>
restRef == <<volumes, num_volumes, out_file, motionVars, compVars, confVars,
             applyVars>>
restApply == <<volumes, out_file, motionVars, compVars, confVars, refVars>>

Null == [kind |-> "null"]
NoExc == [kind |-> "none"]
Raise(k, i) == [kind |-> "raise", type |-> k, info |-> i]
Ok(v) == [kind |-> "ok", val |-> v]
IsRaise(r) == r.kind = "raise"

\* ---------------------------------------------------------------- bounds
MaxVolumes == 2     \* most frames of a series that is split and merged
MaxCandidates == 2  \* largest fifth dimension of a rank-5 series
MaxApplyFrames == 3 \* most frames of a series or of a transform series
MaxIdLen == 2       \* most characters of a session or run identifier
MaxRank == 6        \* highest rank of an image given to split_volumes
MaxRefFrames == 4   \* most frames of a series given to EstimateReferenceImage
MaxTrace == 7       \* longest trace given to is_outlier on its own
MaxFrames == 3      \* longest motion parameter table (rows after the header)
MaxTimepoints == 5  \* most frames of a series given to compute_aCompCor
MaxVoxels == 5      \* most voxels inside a tissue mask
HalfUnits == 3      \* explained variance is counted in shares of 1/(2*HalfUnits)

\* ------------------------------------------------------ python / numpy
Abs(n) == IF n < 0 THEN -n ELSE n

DigitChars == <<"0", "1", "2", "3", "4", "5", "6", "7", "8", "9">>
IsDigit(c) == \E d \in 1..10 : DigitChars[d] = c
DigitVal(c) == (CHOOSE d \in 1..10 : DigitChars[d] = c) - 1

RECURSIVE str(_)
\* python str() of a non-negative int: its decimal digits
str(n) == IF n < 10 THEN <<DigitChars[n + 1]>>
          ELSE str(n \div 10) \o <<DigitChars[(n % 10) + 1]>>

RECURSIVE DigitsVal(_)
DigitsVal(s) == IF Len(s) = 0 THEN 0
                ELSE 10 * DigitsVal(SubSeq(s, 1, Len(s) - 1)) + DigitVal(s[Len(s)])

AllDigits(s) == Len(s) > 0 /\ \A k \in 1..Len(s) : IsDigit(s[k])

\* float(cell) accepts an optional sign followed by digits (the integral
\* literals are the ones the model writes into the file)
IsFloat(s) == \/ AllDigits(s)
              \/ Len(s) > 1 /\ s[1] = "-" /\ AllDigits(Tail(s))
float(s) == IF s[1] = "-" THEN 0 - DigitsVal(Tail(s)) ELSE DigitsVal(s)

\* ------------------------------------------------ extract_rigid_movpar
\* cells of the rows after the header, in the order the loops visit them
CellOrder(rows) == {<<j, i>> : j \in 1..Len(rows), i \in 1..8} \cup
    UNION {{<<j, i>> : i \in 1..Len(rows[j])} : j \in 1..Len(rows)}

\* python's movpar[j, i-2] = float(row[i]) for i in range(2, len(row)) fails
\* at the first cell that is not a float literal (ValueError) or that lies
\* beyond the sixth parameter column (IndexError)
BadCell(rows, j, i) == /\ j \in 1..Len(rows) /\ i \in 3..Len(rows[j])
                       /\ (~IsFloat(rows[j][i]) \/ i > 8)
Before(j1, i1, j2, i2) == j1 < j2 \/ (j1 = j2 /\ i1 <= i2)

extract_rigid_movpar(csv) ==
    IF Len(csv) = 0 THEN Raise("ValueError", "negative dimensions")
    ELSE LET rows == Tail(csv)
             bad == {c \in CellOrder(rows) : BadCell(rows, c[1], c[2])}
         IN IF bad # {}
            THEN LET c == CHOOSE b \in bad :
                            \A o \in bad : Before(b[1], b[2], o[1], o[2])
                 IN IF ~IsFloat(rows[c[1]][c[2]])
                    THEN Raise("ValueError", c) ELSE Raise("IndexError", c)
            ELSE Ok([j \in 1..Len(rows) |->
                      [p \in 1..6 |-> IF p + 2 <= Len(rows[j])
                                      THEN float(rows[j][p + 2]) ELSE 0]])

\* ------------------------------------------------------ motion_24_params
lagged_drop_boundary(rigid, r, i) == IF r = 1 THEN 0 ELSE rigid[r - 1][i]
\* movpar[0,6+i]=movpar[0,i]; movpar[1:,6+i]=movpar[:-1,i]
lagged(rigid, r, i) == IF r = 1 THEN rigid[1][i] ELSE rigid[r - 1][i]

motion_24_row(rigid, r) ==
    [c \in 1..24 |->
        IF c <= 6 THEN rigid[r][c]
        ELSE IF c <= 12 THEN lagged(rigid, r, c - 6)
        ELSE IF c <= 18 THEN rigid[r][c - 12] * rigid[r][c - 12]
        ELSE lagged(rigid, r, c - 18) * lagged(rigid, r, c - 18)]

motion_24_params(csv) ==
    LET rigid_params == extract_rigid_movpar(csv)
    IN IF IsRaise(rigid_params) THEN rigid_params
       ELSE IF Len(rigid_params.val) = 0
            THEN Raise("IndexError", "movpar[0,6]")
            ELSE Ok([r \in 1..Len(rigid_params.val) |->
                        motion_24_row(rigid_params.val, r)])

\* ------------------------------------------------------ compute_aCompCor
Min(a, b) == IF a < b THEN a ELSE b
VarUnits == 2 * HalfUnits       \* the shares of all components add up to 1
Methods == {"50%", "first_5"}

RECURSIVE Descending(_, _, _)
\* non-increasing sequences of len shares, none above top, adding up to total
Descending(len, total, top) ==
    IF len = 0 THEN (IF total = 0 THEN {<<>>} ELSE {})
    ELSE UNION {{<<f>> \o rest : rest \in Descending(len - 1, total - f, f)} :
                  f \in 0..Min(total, top)}
\* PCA().fit: one ratio per component, min(n_samples, n_features) of them,
\* largest first
Ratios(len) == Descending(len, VarUnits, VarUnits)

RECURSIVE Sum(_, _)
Sum(s, k) == IF k = 0 THEN 0 ELSE Sum(s, k - 1) + s[k]

below_half_strict(cum_var) == 2 * cum_var < VarUnits
\* while(cum_var<=0.5)
below_half(cum_var) == 2 * cum_var <= VarUnits

RECURSIVE evaluate_num_comp(_, _, _)
\* the loop that counts the components needed to explain 50% of the variance
evaluate_num_comp(ev, cum_var, num_comp) ==
    IF below_half(cum_var)
    THEN IF num_comp + 1 > Len(ev)
         THEN Raise("IndexError", num_comp)
         ELSE evaluate_num_comp(ev, cum_var + ev[num_comp + 1], num_comp + 1)
    ELSE Ok(num_comp)

pca_fit_transform_truncating(mts, k) ==
    Ok([rows |-> mts.timepoints,
        cols |-> Min(k, Min(mts.timepoints, mts.voxels))])
\* PCA(n_components=k).fit_transform on an n x p matrix: n rows, k columns;
\* sklearn refuses a k above min(n_samples, n_features)
pca_fit_transform(mts, k) ==
    IF k > Min(mts.timepoints, mts.voxels)
    THEN Raise("ValueError", "n_components")
    ELSE Ok([rows |-> mts.timepoints, cols |-> k])

compute_aCompCor(mts, ev, m) ==
    LET counted == IF m = "50%" THEN evaluate_num_comp(ev, 0, 0)
                   ELSE IF m = "first_5" THEN Ok(5)
                   ELSE Raise("UnboundLocalError", "num_comp")
    IN IF IsRaise(counted) THEN counted
       ELSE LET comp_timeseries == pca_fit_transform(mts, counted.val)
            IN IF IsRaise(comp_timeseries) THEN comp_timeseries
               ELSE Ok([comp_timeseries |-> comp_timeseries.val,
                        num_comp |-> counted.val])

\* -------------------------------------------------------------- medians
Range(q) == {q[i] : i \in DOMAIN q}
\* the k-th smallest value of a non-empty sequence
OrderStat(q, k) ==
    CHOOSE v \in Range(q) :
        /\ Cardinality({i \in DOMAIN q : q[i] < v}) < k
        /\ k <= Cardinality({i \in DOMAIN q : q[i] <= v})
\* twice np.median: the middle value counted twice, or the sum of the two
\* middle values
median2(q) == OrderStat(q, (Len(q) + 1) \div 2) + OrderStat(q, (Len(q) \div 2) + 1)

\* ----------------------------------------------------------- is_outlier
\* nipype.algorithms.confounds.is_outlier as imported by
\* _get_vols_to_discard, with its default thresh=3.5:
\*     median = np.median(points); diff = |points - median|
\*     modified_z_score = 0.6745 * diff / np.median(diff)
\*     count the leading scores for which `score <= thresh` is false
\* diff2 is twice diff and mad4 four times the median absolute deviation.
\* With a zero deviation the score is inf (diff > 0) or nan (diff = 0), and
\* `score <= thresh` is false for both.
diff2(points) ==
    LET median == median2(points)
    IN [i \in DOMAIN points |-> Abs(2 * points[i] - median)]
mad4(points) == median2(diff2(points))
\* modified_z_score[i] <= thresh, given diff2 and mad4 of the points
within_thresh(diff, med_abs_deviation, i) ==
    /\ med_abs_deviation > 0
    /\ 2 * 6745 * diff[i] <= 35000 * med_abs_deviation

is_outlier(points) ==
    IF Len(points) = 0 THEN 0
    ELSE LET diff == diff2(points)
             med_abs_deviation == median2(diff)
             stops == {i \in DOMAIN points :
                          within_thresh(diff, med_abs_deviation, i)}
         IN IF stops = {} THEN Len(points)
            ELSE (CHOOSE i \in stops : \A j \in stops : i <= j) - 1

\* ------------------------------------------------- output file names
\* a file name is the sequence of its pieces; split('_ses-')[1][0] and
\* split('_run-')[1][0] keep the first character of the session and of the run
filename_template(name) ==
    <<name.subject, "_ses-", name.session[1], "_run-", name.run[1]>>

Write(files, path, content) ==
    [q \in (DOMAIN files) \cup {path} |->
        IF q = path THEN content ELSE files[q]]

\* ------------------------------------------------------- numpy arrays
\* an array is its shape and its cells, indexed by tuples (1-based here)
RECURSIVE Indices(_)
Indices(shape) ==
    IF Len(shape) = 0 THEN {<<>>}
    ELSE {Append(i, c) : i \in Indices(SubSeq(shape, 1, Len(shape) - 1)),
                         c \in 1..shape[Len(shape)]}

zeros(shape) == [shape |-> shape, data |-> [i \in Indices(shape) |-> 0]]

\* dataobj[:, :, :, x] of a 4-D array (x counted from 0)
frame_of_4d(a, x) ==
    LET shp == SubSeq(a.shape, 1, 3)
    IN [shape |-> shp, data |-> [i \in Indices(shp) |-> a.data[Append(i, x + 1)]]]

\* dataobj[:, :, :, x, :] of a 5-D array: the fourth axis is dropped
frame_of_5d(a, x) ==
    LET shp == SubSeq(a.shape, 1, 3) \o <<a.shape[5]>>
    IN [shape |-> shp,
        data |-> [i \in Indices(shp) |->
                    a.data[<<i[1], i[2], i[3], x + 1, i[4]>>]]]

\* numpy's rule for target[...] = value: leading axes that the value has in
\* excess must have length 1, the others must have length 1 or the target's
can_broadcast(v, t) ==
    /\ \A d \in 1..(Len(v) - Len(t)) : v[d] = 1
    /\ \A j \in 1..Min(Len(v), Len(t)) :
          v[Len(v) + 1 - j] \in {1, t[Len(t) + 1 - j]}

\* the cell of the value that lands on cell i of the target
broadcast_index(v, t, i) ==
    [d \in 1..Len(v) |->
        IF d <= Len(v) - Len(t) THEN 1
        ELSE IF v[d] = 1 THEN 1 ELSE i[d - (Len(v) - Len(t))]]

\* --------------------------------------------------------- split_volumes
vol_fname(output_prefix, x) == <<output_prefix, "vol">> \o str(x) \o <<".nii.gz">>

frame_of_first(a, x) ==
    IF Len(a.shape) = 4 THEN frame_of_4d(a, 0) ELSE frame_of_5d(a, x)
\* the volume written for frame x of a series of rank 4 or 5
frame_of(a, x) ==
    IF Len(a.shape) = 4 THEN frame_of_4d(a, x) ELSE frame_of_5d(a, x)

RECURSIVE WriteAll(_, _, _)
WriteAll(files, paths, contents) ==
    IF Len(paths) = 0 THEN files
    ELSE WriteAll(Write(files, Head(paths), Head(contents)),
                  Tail(paths), Tail(contents))

\* returns the files after the call and the value returned (None when the
\* rank is neither 4 nor 5) or the exception raised
split_volumes(files, img, output_prefix) ==
    IF Len(img.shape) < 4
    THEN [files |-> files, ret |-> Raise("IndexError", "in_nii.shape[3]")]
    ELSE LET n == img.shape[4]
             names == [x \in 1..n |-> vol_fname(output_prefix, x - 1)]
             slices == [x \in 1..n |-> frame_of(img, x - 1)]
         IN IF Len(img.shape) # 4 /\ Len(img.shape) # 5
            THEN [files |-> files, ret |-> [kind |-> "None"]]
            ELSE [files |-> WriteAll(files, names, slices),
                  ret |-> Ok([volumes |-> names, num_volumes |-> n])]

\* ----------------------------------------------------------------- Merge
RECURSIVE merge_loop(_, _, _, _)
\* combined[:,:,:,i] = nb.load(file).dataobj[:,:,:] for each file in turn
merge_loop(files, in_files, combined, i) ==
    IF i = Len(in_files) THEN Ok(combined)
    ELSE LET vol == files[in_files[i + 1]]
             target == SubSeq(combined.shape, 1, 3)
         IN IF ~can_broadcast(vol.shape, target)
            THEN Raise("ValueError", "could not broadcast input array")
            ELSE merge_loop(files, in_files,
                    [combined EXCEPT !.data =
                        [c \in DOMAIN combined.data |->
                            IF c[4] = i + 1
                            THEN vol.data[broadcast_index(vol.shape, target,
                                                          SubSeq(c, 1, 3))]
                            ELSE combined.data[c]]],
                    i + 1)

\* Merge._run_interface: the file written and its path, or the exception
merge_run(files, in_files, header_source) ==
    IF Len(in_files) = 0 THEN Raise("IndexError", "in_files[0]")
    ELSE LET img == files[in_files[1]]
             length == Len(in_files)
             combined == merge_loop(files, in_files,
                            zeros(SubSeq(img.shape, 1, 3) \o <<length>>), 0)
         IN IF IsRaise(combined) THEN combined
            ELSE Ok([path |-> filename_template(header_source.name)
                                \o <<"_combined.nii.gz">>,
                     content |-> combined.val])

\* ------------------------------------------------ EstimateReferenceImage
Max(a, b) == IF a > b THEN a ELSE b
file_name(name) == <<name.subject, "_ses-">> \o name.session \o <<"_run-">>
                       \o name.run \o <<"_bold.nii.gz">>

\* a[:, :, :, lo:hi] of a 4-D array: python clips the slice to the array
frames_4d(a, lo, hi) ==
    LET stop == Min(hi, a.shape[4])
        shp == SubSeq(a.shape, 1, 3) \o <<Max(0, stop - lo)>>
    IN [shape |-> shp,
        data |-> [i \in Indices(shp) |->
                    a.data[<<i[1], i[2], i[3], i[4] + lo>>]]]

median_axis3_lower(a) ==
    LET shp == SubSeq(a.shape, 1, 3)
    IN [shape |-> shp,
        data |-> [i \in Indices(shp) |->
                    OrderStat([f \in 1..a.shape[4] |-> a.data[Append(i, f)]],
                              (a.shape[4] + 1) \div 2)]]
\* np.median(a, axis=3): the voxel values of the model are even, so the mean
\* of the two middle values of an even number of frames is an integer
median_axis3(a) ==
    LET shp == SubSeq(a.shape, 1, 3)
    IN [shape |-> shp,
        data |-> [i \in Indices(shp) |->
                    median2([f \in 1..a.shape[4] |-> a.data[Append(i, f)]]) \div 2]]

RECURSIVE SumOver(_, _)
SumOver(f, S) == IF S = {} THEN 0
                 ELSE LET e == CHOOSE e \in S : TRUE
                      IN f[e] + SumOver(f, S \ {e})

global_signal_untruncated(img) ==
    LET grid == Indices(SubSeq(img.shape, 1, 3))
    IN [f \in 1..img.shape[4] |->
            SumOver([i \in grid |-> img.data[Append(i, f)]], grid)]
\* data_slice.mean(axis=0).mean(axis=0).mean(axis=0) of the first 50 frames,
\* kept as the sum over the voxels of a frame (the mean times the number of
\* voxels: is_outlier compares ratios, which the factor leaves unchanged)
global_signal_of(img) ==
    LET data_slice == frames_4d(img, 0, 50)
        grid == Indices(SubSeq(img.shape, 1, 3))
    IN [f \in 1..data_slice.shape[4] |->
            SumOver([i \in grid |-> data_slice.data[Append(i, f)]], grid)]

_get_vols_to_discard(img) == is_outlier(global_signal_of(img))

out_ref_fname(name) == filename_template(name) \o <<"_bold_ref.nii.gz">>

\* the frames of the first n of data_slice, data_slice[:, :, :, :n]
dummy_frames_plus_one(img, n) == frames_4d(frames_4d(img, 0, 50), 0, n + 1)
dummy_frames(img, n) == frames_4d(frames_4d(img, 0, 50), 0, n)

\* --------------------------------------------------------- antsMotionCorr
ScratchDir == "ants_mc_tmp/"
FirstScratchDir == "first_ants_mc_tmp/"
mv_scratch_keep(files) == files
\* mv ants_mc_tmp first_ants_mc_tmp: every file of the directory moves
mv_scratch(files) ==
    LET moved(q) == IF q[1] = ScratchDir THEN <<FirstScratchDir>> \o Tail(q)
                    ELSE q
    IN [q \in {moved(o) : o \in DOMAIN files} |->
            files[CHOOSE o \in DOMAIN files : moved(o) = q]]

\* the series an invocation may produce: as many frames as it was given,
\* left as they were or all brought onto the first or onto the last one
SolverOutputs(candidates) ==
    {candidates} \cup
    {[candidates EXCEPT !.data =
        [i \in DOMAIN candidates.data |->
            candidates.data[<<i[1], i[2], i[3], f>>]]] :
        f \in {1, candidates.shape[4]}}

command_result_ignoring_status(status) == Ok(status)
\* CommandLine._run_interface raises when the return code is not 0
command_result(status) ==
    IF status # 0 THEN Raise("RuntimeError", "antsMotionCorr") ELSE Ok(status)

\* ------------------------------------------------------- applyTransforms
\* os.path.abspath("deformed_volume" + str(x+1) + ".nii.gz")
warped_vol_fname(x) == <<"deformed_volume">> \o str(x + 1) \o <<".nii.gz">>
FieldWarp == <<"fieldwarp.nii.gz">>
transforms_of_previous(use_fw, xform_files, x) ==
    LET prev == IF x = 0 THEN 1 ELSE x
    IN IF use_fw THEN <<xform_files[prev], FieldWarp>> ELSE <<xform_files[prev]>>
\* at.inputs.transforms for frame x: the motion transform of the frame,
\* followed by the distortion field when use_fieldwarp is set
transforms_of(use_fw, xform_files, x) ==
    IF use_fw THEN <<xform_files[x + 1], FieldWarp>> ELSE <<xform_files[x + 1]>>

resample_result_ignoring_status(status, inputs) == Ok(status)
\* at.run() raises when antsApplyTransforms returns a nonzero code; the
\* exception carries the command line, that is the inputs of the call
resample_result(status, inputs) ==
    IF status # 0 THEN Raise("RuntimeError", inputs) ELSE Ok(status)

\* ---------------------------------------------------- ConfoundRegression
\* extract_mask_trace: the mean inside the mask, one value per frame
extract_mask_trace(b, what) == [from |-> what, col |-> 0, len |-> b.frames]

\* for param in range(table.shape[1]): confounds.append(table[:,param])
columns_of(what, rows, cols) ==
    [param \in 1..cols |-> [from |-> what, col |-> param - 1, len |-> rows]]

\* comp_column.append(prefix+str(comp+1)) for comp in range(num_comp)
comp_column(prefix, num_comp) ==
    [comp \in 1..num_comp |-> <<prefix>> \o str(comp)]

\* the names added for the motion regressors
motion_columns ==
    << <<"mov1-1">>, <<"mov2-1">>, <<"mov3-1">>,
       <<"rot1-1">>, <<"rot2-1">>, <<"rot3-1">>,
       <<"mov1^2">>, <<"mov2^2">>, <<"mov3^2">>,
       <<"rot1^2">>, <<"rot2^2">>, <<"rot3^2">>,
       <<"mov1-1^2">>, <<"mov2-1^2">>, <<"mov3-1^2">>,
       <<"rot1-1^2">>, <<"rot2-1^2">>, <<"rot3-1^2">> >>

\* np.asarray of a list of 1-D arrays: a 2-D array when they have one length;
\* otherwise numpy >= 1.24 raises and older releases build a 1-D array of
\* objects
asarray(columns, ragged) ==
    IF \A a, b \in 1..Len(columns) : columns[a].len = columns[b].len
    THEN Ok([shape |-> <<Len(columns), columns[1].len>>])
    ELSE IF ragged = "raise"
         THEN Raise("ValueError", "inhomogeneous shape")
         ELSE Ok([shape |-> <<Len(columns)>>])

transpose(a) ==
    [shape |-> [d \in 1..Len(a.shape) |-> a.shape[Len(a.shape) + 1 - d]]]

\* pd.DataFrame of a 2-D array keeps its shape; a 1-D array is one column
DataFrame(a) ==
    IF Len(a.shape) = 2 THEN [rows |-> a.shape[1], cols |-> a.shape[2]]
    ELSE [rows |-> a.shape[1], cols |-> 1]

write_confound_csv_unchecked(confound_array, column_names, template) ==
    LET df == DataFrame(confound_array)
    IN Ok([path |-> template \o <<"_confounds.csv">>,
           content |-> [columns |-> column_names,
                        rows |-> df.rows, cols |-> df.cols]])

\* df.columns=column_names raises unless there is one name per column
write_confound_csv(confound_array, column_names, template) ==
    LET df == DataFrame(confound_array)
    IN IF Len(column_names) # df.cols
       THEN Raise("ValueError", "Length mismatch")
       ELSE Ok([path |-> template \o <<"_confounds.csv">>,
                content |-> [columns |-> column_names,
                             rows |-> df.rows, cols |-> df.cols]])

\* ------------------------------------------------ the motion table file
Cell(n) == IF n < 0 THEN <<"-">> \o str(0 - n) ELSE str(n)
HeaderRow == <<<<"M">>, <<"P">>>>
\* one row per frame: two leading identifier cells, then the 6 parameters
ParamRows == {[p \in 1..6 |-> ((a + b * p) % 5) - 2] : a \in 0..2, b \in 0..1}
CsvRow(params) == <<<<"i">>, <<"d">>>> \o [p \in 1..6 |-> Cell(params[p])]
RECURSIVE Tables(_)
Tables(t) == IF t = 0 THEN {<<>>}
             ELSE {Append(tb, w) : tb \in Tables(t - 1), w \in ParamRows}
MovparFiles == UNION {{<<HeaderRow>> \o [r \in 1..t |-> CsvRow(tb[r])] :
                          tb \in Tables(t)} : t \in 1..MaxFrames}

\* ===================================================== motion_24_params
NoFiles == <<>>
IdleMotion == movpar_csv = <<>> /\ motion_24 = Null
IdleComp == /\ method = "" /\ mask_timeseries = Null
            /\ explained_variance = <<>> /\ aCompCor = Null
IdleConf == /\ bold = Null /\ WM_pca = Null /\ CSF_pca = Null
            /\ numpy_ragged = "" /\ confounds = <<>> /\ csv_columns = <<>>
            /\ confounds_csv = Null
IdleSplit == /\ in_file = Null /\ volumes = <<>> /\ num_volumes = 0
             /\ out_file = Null
IdleRef == /\ global_signal = <<>> /\ n_volumes_to_discard = Null
           /\ slice_fname = Null /\ ref_file = Null /\ second = FALSE
           /\ solver_calls = <<>> /\ mc_corrected_bold = Null /\ dirs = {}
           /\ ref_image = Null /\ skip_vols = Null
IdleApply == /\ xforms = Null /\ use_fieldwarp = FALSE /\ bold_volumes = <<>>
             /\ split_xform = <<>> /\ warped_volumes = <<>> /\ x_index = 0
             /\ at = Null /\ resample_calls = <<>> /\ stdout = <<>>
             /\ out_files = Null

InitMotion ==
    /\ pc = "motion_24_params"
    /\ exc = NoExc
    /\ movpar_csv \in MovparFiles
    /\ motion_24 = Null
    /\ fs = NoFiles
    /\ IdleComp /\ IdleConf /\ IdleSplit /\ IdleRef /\ IdleApply

Motion24Params ==
    /\ pc = "motion_24_params"
    /\ LET res == motion_24_params(movpar_csv)
       IN IF IsRaise(res)
          THEN /\ exc' = res /\ pc' = "failed" /\ UNCHANGED motion_24
          ELSE /\ motion_24' = res.val /\ pc' = "done" /\ UNCHANGED exc
    /\ UNCHANGED <<fs, movpar_csv, restMotion>>

NextMotion == Motion24Params
SpecMotion == InitMotion /\ [][NextMotion]_vars

\* ================================================== extract_rigid_movpar
\* tables whose rows carry 4 to 7 parameters after the two identifier cells
RaggedRows == {<<<<"i">>, <<"d">>>> \o [p \in 1..k |-> Cell(a - p)] :
                  k \in 4..7, a \in {1, 3}}
RECURSIVE RaggedTables(_)
RaggedTables(t) == IF t = 0 THEN {<<>>}
                   ELSE {Append(tb, w) : tb \in RaggedTables(t - 1),
                                         w \in RaggedRows}
RaggedFiles == UNION {{<<HeaderRow>> \o tb : tb \in RaggedTables(t)} :
                         t \in 1..MaxFrames}

InitParse ==
    /\ pc = "motion_24_params"
    /\ exc = NoExc
    /\ movpar_csv \in RaggedFiles
    /\ motion_24 = Null
    /\ fs = NoFiles
    /\ IdleComp /\ IdleConf /\ IdleSplit /\ IdleRef /\ IdleApply

SpecParse == InitParse /\ [][NextMotion]_vars

\* the parameters the file holds for frame r (0-based), parameter i (0-based)
FileParam(r, i) == float(movpar_csv[r + 2][i + 3])
FileFrames == Len(movpar_csv) - 1

\* ====================================================== compute_aCompCor
InitComp ==
    /\ pc = "compute_aCompCor"
    /\ exc = NoExc
    /\ method \in Methods
    /\ \E n \in 2..MaxTimepoints, p \in 1..MaxVoxels :
          /\ mask_timeseries = [timepoints |-> n, voxels |-> p]
          /\ explained_variance \in Ratios(Min(n, p))
    /\ aCompCor = Null
    /\ fs = NoFiles
    /\ IdleMotion /\ IdleConf /\ IdleSplit /\ IdleRef /\ IdleApply

ComputeACompCor ==
    /\ pc = "compute_aCompCor"
    /\ LET res == compute_aCompCor(mask_timeseries, explained_variance, method)
       IN IF IsRaise(res)
          THEN /\ exc' = res /\ pc' = "failed" /\ UNCHANGED aCompCor
          ELSE /\ aCompCor' = res.val /\ pc' = "done" /\ UNCHANGED exc
    /\ UNCHANGED <<fs, method, mask_timeseries, explained_variance, restComp>>

NextComp == ComputeACompCor
SpecComp == InitComp /\ [][NextComp]_vars

\* ==================================================== ConfoundRegression
BoldNames == {[subject |-> "sub-01", session |-> <<"1">>, run |-> <<"1">>]}
\* one motion table for each number of frames
RunTable(t) == <<HeaderRow>> \o
                 [r \in 1..t |-> CsvRow([p \in 1..6 |-> ((r + p) % 5) - 2])]
\* a small mask and the largest one
Masks(n) == UNION {{[voxels |-> p, ratio |-> ev] : ev \in Ratios(Min(n, p))} :
                      p \in {2, MaxVoxels}}

InitConf ==
    /\ pc = "ConfoundRegression"
    /\ exc = NoExc
    /\ fs = NoFiles
    /\ \E nm \in BoldNames, n \in 2..MaxTimepoints :
          /\ bold = [name |-> nm, frames |-> n]
          /\ WM_pca \in Masks(n)
          /\ CSF_pca \in Masks(n)
    /\ method \in Methods
    /\ movpar_csv \in {RunTable(t) : t \in 1..MaxFrames}
    /\ numpy_ragged \in {"raise", "object"}
    /\ confounds = <<>> /\ csv_columns = <<>> /\ confounds_csv = Null
    /\ motion_24 = Null
    /\ mask_timeseries = Null /\ explained_variance = <<>> /\ aCompCor = Null
    /\ IdleSplit /\ IdleRef /\ IdleApply

\* ConfoundRegression._run_interface up to the call of write_confound_csv
BuildConfounds ==
    /\ pc = "ConfoundRegression"
    /\ LET WM == compute_aCompCor(
                    [timepoints |-> bold.frames, voxels |-> WM_pca.voxels],
                    WM_pca.ratio, method)
           CSF == compute_aCompCor(
                    [timepoints |-> bold.frames, voxels |-> CSF_pca.voxels],
                    CSF_pca.ratio, method)
           motion == motion_24_params(movpar_csv)
           failure == IF IsRaise(WM) THEN WM
                      ELSE IF IsRaise(CSF) THEN CSF ELSE motion
       IN IF IsRaise(failure)
          THEN /\ exc' = failure /\ pc' = "failed"
               /\ UNCHANGED <<confounds, csv_columns, motion_24>>
          ELSE /\ confounds' =
                    <<extract_mask_trace(bold, "WM_signal")>>
                    \o columns_of("WM_aCompCor", WM.val.comp_timeseries.rows,
                                  WM.val.comp_timeseries.cols)
                    \o <<extract_mask_trace(bold, "CSF_signal")>>
                    \o columns_of("CSF_aCompCor", CSF.val.comp_timeseries.rows,
                                  CSF.val.comp_timeseries.cols)
                    \o <<extract_mask_trace(bold, "global_signal")>>
                    \o columns_of("motion_24", Len(motion.val), 24)
               /\ csv_columns' =
                    << <<"WM_signal">> >> \o comp_column("WM_comp", WM.val.num_comp)
                    \o << <<"CSF_signal">> >>
                    \o comp_column("CSF_comp", CSF.val.num_comp)
                    \o << <<"global_signal">> >> \o motion_columns
               /\ motion_24' = motion.val
               /\ pc' = "write_confound_csv"
               /\ UNCHANGED exc
    /\ UNCHANGED <<fs, movpar_csv, method, mask_timeseries, explained_variance,
                   aCompCor, bold, WM_pca, CSF_pca, numpy_ragged,
                   confounds_csv, restConf>>

\* the call of write_confound_csv on the transposed array, and setattr
WriteConfoundCsv ==
    /\ pc = "write_confound_csv"
    /\ LET arr == asarray(confounds, numpy_ragged)
           res == IF IsRaise(arr) THEN arr
                  ELSE write_confound_csv(transpose(arr.val), csv_columns,
                                          filename_template(bold.name))
       IN IF IsRaise(res)
          THEN /\ exc' = res /\ pc' = "failed"
               /\ UNCHANGED <<fs, confounds_csv>>
          ELSE /\ fs' = Write(fs, res.val.path, res.val.content)
               /\ confounds_csv' = res.val.path
               /\ pc' = "done"
               /\ UNCHANGED exc
    /\ UNCHANGED <<motionVars, compVars, bold, WM_pca, CSF_pca, numpy_ragged,
                   confounds, csv_columns, restConf>>

NextConf == BuildConfounds \/ WriteConfoundCsv
SpecConf == InitConf /\ [][NextConf]_vars

\* ================================================= split_volumes, Merge
Grids == {<<1, 1, 1>>, <<2, 1, 1>>, <<1, 1, 2>>}
Voxel == {0, 1}
Images(shape) == {[shape |-> shape, data |-> d] : d \in [Indices(shape) -> Voxel]}
Series4 == UNION {Images(g \o <<t>>) : g \in Grids, t \in 1..MaxVolumes}
\* rank-5 series: every cell of a frame holds 1 in the frames of lit, else 0
Lit(shape, lit) ==
    [shape |-> shape,
     data |-> [i \in Indices(shape) |-> IF i[4] \in lit THEN 1 ELSE 0]]
Series5 == UNION {{Lit(g \o <<t, k>>, lit) : lit \in SUBSET (1..t)} :
                    g \in Grids, t \in 1..MaxVolumes, k \in 1..MaxCandidates}

InitSplit ==
    /\ pc = "split_volumes"
    /\ exc = NoExc
    /\ fs = NoFiles
    /\ \E nm \in BoldNames, im \in Series4 \cup Series5 :
          in_file = [name |-> nm, img |-> im]
    /\ volumes = <<>> /\ num_volumes = 0 /\ out_file = Null
    /\ IdleMotion /\ IdleComp /\ IdleConf /\ IdleRef /\ IdleApply

\* [volumes, num_volumes] = split_volumes(in_file, "bold_")
SplitVolumes ==
    /\ pc = "split_volumes"
    /\ LET res == split_volumes(fs, in_file.img, "bold_")
       IN /\ fs' = res.files
          /\ IF IsRaise(res.ret)
             THEN /\ exc' = res.ret /\ pc' = "failed"
                  /\ UNCHANGED <<volumes, num_volumes>>
             ELSE IF res.ret.kind = "None"
             THEN /\ exc' = Raise("TypeError", "cannot unpack None")
                  /\ pc' = "failed"
                  /\ UNCHANGED <<volumes, num_volumes>>
             ELSE /\ volumes' = res.ret.val.volumes
                  /\ num_volumes' = res.ret.val.num_volumes
                  /\ pc' = "Merge"
                  /\ UNCHANGED exc
    /\ UNCHANGED <<in_file, out_file, restSplit>>

\* Merge(in_files=volumes, header_source=in_file).run()
MergeRun ==
    /\ pc = "Merge"
    /\ LET res == merge_run(fs, volumes, in_file)
       IN IF IsRaise(res)
          THEN /\ exc' = res /\ pc' = "failed" /\ UNCHANGED <<fs, out_file>>
          ELSE /\ fs' = Write(fs, res.val.path, res.val.content)
               /\ out_file' = res.val.path
               /\ pc' = "done"
               /\ UNCHANGED exc
    /\ UNCHANGED <<in_file, volumes, num_volumes, restSplit>>

NextSplit == SplitVolumes \/ MergeRun
SpecSplit == InitSplit /\ [][NextSplit]_vars

\* inputs of every rank from 1 to MaxRank, each axis of length 1 or 2
RECURSIVE Shapes(_)
Shapes(rank) == IF rank = 0 THEN {<<>>}
                ELSE {Append(sh, d) : sh \in Shapes(rank - 1), d \in {1, 2}}
Chequered(shape, a) ==
    [shape |-> shape,
     data |-> [i \in Indices(shape) |-> (Sum(i, Len(i)) + a) % 2]]
AnyRank == UNION {{Chequered(sh, a) : sh \in Shapes(rank), a \in {0, 1}} :
                     rank \in 1..MaxRank}

InitRank ==
    /\ pc = "split_volumes"
    /\ exc = NoExc
    /\ fs = NoFiles
    /\ \E nm \in BoldNames, im \in AnyRank :
          in_file = [name |-> nm, img |-> im]
    /\ volumes = <<>> /\ num_volumes = 0 /\ out_file = Null
    /\ IdleMotion /\ IdleComp /\ IdleConf /\ IdleRef /\ IdleApply

SpecRank == InitRank /\ [][NextSplit]_vars

\* ============================================================ is_outlier
Signal == {10, 11, 100}
RECURSIVE Traces(_)
Traces(len) == IF len = 0 THEN {<<>>}
               ELSE {Append(q, v) : q \in Traces(len - 1), v \in Signal}

InitOutlier ==
    /\ pc = "is_outlier"
    /\ exc = NoExc
    /\ fs = NoFiles
    /\ global_signal \in UNION {Traces(len) : len \in 0..MaxTrace}
    /\ n_volumes_to_discard = Null
    /\ slice_fname = Null /\ ref_file = Null /\ second = FALSE
    /\ solver_calls = <<>> /\ mc_corrected_bold = Null /\ dirs = {}
    /\ ref_image = Null /\ skip_vols = Null
    /\ IdleMotion /\ IdleComp /\ IdleConf /\ IdleSplit /\ IdleApply

\* return is_outlier(global_signal)
IsOutlier ==
    /\ pc = "is_outlier"
    /\ n_volumes_to_discard' = is_outlier(global_signal)
    /\ pc' = "done"
    /\ UNCHANGED <<exc, fs, global_signal, slice_fname, ref_file, second,
                   solver_calls, mc_corrected_bold, dirs, ref_image, skip_vols,
                   restOutlier>>

NextOutlier == IsOutlier
SpecOutlier == InitOutlier /\ [][NextOutlier]_vars

\* ================================================ EstimateReferenceImage
RefGrid == <<2, 1, 1>>
\* the frames a series is made of: the values of the two voxels
FrameKinds == {<<20, 20>>, <<22, 26>>, <<26, 22>>, <<200, 200>>}
RECURSIVE FrameLists(_)
FrameLists(t) == IF t = 0 THEN {<<>>}
                 ELSE {Append(q, k) : q \in FrameLists(t - 1), k \in FrameKinds}
SeriesOf(q) == [shape |-> RefGrid \o <<Len(q)>>,
                data |-> [i \in Indices(RefGrid \o <<Len(q)>>) |-> q[i[4]][i[1]]]]
\* long series without dummy scans, on either side of the 40-frame test;
\* frames 20..39 (counted from 0) differ from the others
LongFrame(f) == IF f \in 21..40
                THEN (IF f % 2 = 0 THEN <<20, 24>> ELSE <<22, 26>>)
                ELSE (IF f % 4 = 1 THEN <<20, 20>>
                      ELSE IF f % 4 = 0 THEN <<20, 24>> ELSE <<26, 22>>)
LongSeries == {SeriesOf([f \in 1..t |-> LongFrame(f)]) : t \in {40, 41}}
\* series of more than 50 frames, with and without a dummy volume at the
\* head; the frames past the 50th are brighter than all the others
BeyondFrame(f, head) == IF f > 50 THEN <<200, 200>>
                        ELSE IF f = 1 THEN head ELSE LongFrame(f)
BeyondSeries == {SeriesOf([f \in 1..52 |-> BeyondFrame(f, head)]) :
                    head \in {<<20, 20>>, <<100, 100>>}}
RefSeries == LongSeries \cup BeyondSeries \cup
    UNION {{SeriesOf(q) : q \in FrameLists(t)} : t \in 1..MaxRefFrames}

InitRef ==
    /\ pc = "EstimateReferenceImage"
    /\ exc = NoExc
    /\ \E nm \in BoldNames, im \in RefSeries :
          /\ in_file = [name |-> nm, img |-> im]
          /\ fs = Write(NoFiles, file_name(nm), im)
    /\ volumes = <<>> /\ num_volumes = 0 /\ out_file = Null
    /\ global_signal = <<>> /\ n_volumes_to_discard = Null
    /\ slice_fname = Null /\ ref_file = Null /\ second = FALSE
    /\ solver_calls = <<>> /\ mc_corrected_bold = Null /\ dirs = {}
    /\ ref_image = Null /\ skip_vols = Null
    /\ IdleMotion /\ IdleComp /\ IdleConf /\ IdleApply

\* _run_interface up to the first solver call or, with dummy scans, to its end
EstimateBegin ==
    /\ pc = "EstimateReferenceImage"
    /\ LET in_nii == in_file.img
           data_slice == frames_4d(in_nii, 0, 50)
           n == _get_vols_to_discard(in_nii)
       IN /\ global_signal' = global_signal_of(in_nii)
          /\ n_volumes_to_discard' = n
          /\ IF n = 0
             THEN /\ IF in_nii.shape[4] > 40
                     THEN /\ slice_fname' = <<"slice.nii.gz">>
                          /\ fs' = Write(Write(fs, <<"slice.nii.gz">>,
                                               frames_4d(data_slice, 20, 40)),
                                         <<"median.nii.gz">>,
                                         median_axis3(frames_4d(data_slice, 20, 40)))
                     ELSE /\ slice_fname' = file_name(in_file.name)
                          /\ fs' = Write(fs, <<"median.nii.gz">>,
                                         median_axis3(data_slice))
                  /\ ref_file' = <<"median.nii.gz">>
                  /\ pc' = "antsMotionCorr"
                  /\ UNCHANGED <<ref_image, skip_vols>>
             ELSE /\ fs' = Write(fs, out_ref_fname(in_file.name),
                                 median_axis3(dummy_frames(in_nii, n)))
                  /\ ref_image' = out_ref_fname(in_file.name)
                  /\ skip_vols' = n
                  /\ pc' = "done"
                  /\ UNCHANGED <<slice_fname, ref_file>>
    /\ UNCHANGED <<exc, in_file, second, solver_calls, mc_corrected_bold, dirs,
                   restRef>>

\* antsMotionCorr._run_interface before the command: the rename of the
\* directory of the first pass, and makedirs
AntsPrepare ==
    /\ pc = "antsMotionCorr"
    /\ IF second /\ "ants_mc_tmp" \notin dirs
       THEN /\ exc' = Raise("RuntimeError", "mv")
            /\ pc' = "failed"
            /\ UNCHANGED <<fs, dirs>>
       ELSE /\ fs' = IF second THEN mv_scratch(fs) ELSE fs
            /\ dirs' = IF second THEN dirs \cup {"first_ants_mc_tmp", "ants_mc_tmp"}
                       ELSE dirs \cup {"ants_mc_tmp"}
            /\ pc' = "solver"
            /\ UNCHANGED exc
    /\ UNCHANGED <<in_file, global_signal, n_volumes_to_discard, slice_fname,
                   ref_file, second, solver_calls, mc_corrected_bold,
                   ref_image, skip_vols, restRef>>

\* the antsMotionCorr command itself: it ends with a status and, unless it
\* stopped before writing, leaves its series in ants_mc_tmp
AntsSolver ==
    /\ pc = "solver"
    /\ \E status \in {0, 1}, out \in SolverOutputs(fs[slice_fname]),
          wrote \in BOOLEAN :
          /\ status = 0 => wrote
          /\ solver_calls' = Append(solver_calls,
                [second |-> second, in_file |-> fs[slice_fname],
                 ref_file |-> fs[ref_file], status |-> status,
                 out |-> IF wrote THEN out ELSE Null])
          /\ fs' = IF wrote
                   THEN Write(fs, <<ScratchDir, "motcorr.nii.gz">>, out)
                   ELSE fs
          /\ IF IsRaise(command_result(status))
             THEN /\ exc' = command_result(status)
                  /\ pc' = "failed"
                  /\ UNCHANGED mc_corrected_bold
             ELSE /\ mc_corrected_bold' = <<ScratchDir, "motcorr.nii.gz">>
                  /\ pc' = IF second THEN "second_median" ELSE "first_median"
                  /\ UNCHANGED exc
    /\ UNCHANGED <<in_file, global_signal, n_volumes_to_discard, slice_fname,
                   ref_file, second, dirs, ref_image, skip_vols, restRef>>

\* the median of the first pass becomes the target of the second
FirstMedian ==
    /\ pc = "first_median"
    /\ IF mc_corrected_bold \notin DOMAIN fs
       THEN /\ exc' = Raise("FileNotFoundError", mc_corrected_bold)
            /\ pc' = "failed"
            /\ UNCHANGED <<fs, ref_file, second>>
       ELSE /\ fs' = Write(fs, <<"tmp_median.nii.gz">>,
                           median_axis3(fs[mc_corrected_bold]))
            /\ ref_file' = <<"tmp_median.nii.gz">>
            /\ second' = TRUE
            /\ pc' = "antsMotionCorr"
            /\ UNCHANGED exc
    /\ UNCHANGED <<in_file, global_signal, n_volumes_to_discard, slice_fname,
                   solver_calls, mc_corrected_bold, dirs, ref_image, skip_vols,
                   restRef>>

\* the median of the second pass is written as the reference image
SecondMedian ==
    /\ pc = "second_median"
    /\ IF mc_corrected_bold \notin DOMAIN fs
       THEN /\ exc' = Raise("FileNotFoundError", mc_corrected_bold)
            /\ pc' = "failed"
            /\ UNCHANGED <<fs, ref_image, skip_vols>>
       ELSE /\ fs' = Write(fs, out_ref_fname(in_file.name),
                           median_axis3(fs[mc_corrected_bold]))
            /\ ref_image' = out_ref_fname(in_file.name)
            /\ skip_vols' = n_volumes_to_discard
            /\ pc' = "done"
            /\ UNCHANGED exc
    /\ UNCHANGED <<in_file, global_signal, n_volumes_to_discard, slice_fname,
                   ref_file, second, solver_calls, mc_corrected_bold, dirs,
                   restRef>>

NextRef == EstimateBegin \/ AntsPrepare \/ AntsSolver \/ FirstMedian
           \/ SecondMedian
SpecRef == InitRef /\ [][NextRef]_vars

\* ======================================================== file names
\* session and run identifiers of one character and of several
RECURSIVE Ids(_)
Ids(len) == IF len = 0 THEN {<<>>}
            ELSE {<<>>} \cup {Append(q, c) : q \in Ids(len - 1), c \in {"1", "2"}}
Names == {[subject |-> sb, session |-> se, run |-> ru] :
             sb \in {"sub-01", "sub-02"},
             se \in Ids(MaxIdLen) \ {<<>>}, ru \in Ids(MaxIdLen) \ {<<>>}}
\* a series without dummy volumes and one with a dummy volume at its head
NamedSeries ==
    {SeriesOf(<<<<20, 20>>, <<22, 26>>, <<26, 22>>, <<20, 20>>>>),
     SeriesOf(<<<<200, 200>>, <<20, 20>>, <<22, 26>>, <<20, 20>>>>)}

InitNames ==
    /\ pc = "EstimateReferenceImage"
    /\ exc = NoExc
    /\ \E nm \in Names, im \in NamedSeries :
          /\ in_file = [name |-> nm, img |-> im]
          /\ fs = Write(NoFiles, file_name(nm), im)
    /\ volumes = <<>> /\ num_volumes = 0 /\ out_file = Null
    /\ global_signal = <<>> /\ n_volumes_to_discard = Null
    /\ slice_fname = Null /\ ref_file = Null /\ second = FALSE
    /\ solver_calls = <<>> /\ mc_corrected_bold = Null /\ dirs = {}
    /\ ref_image = Null /\ skip_vols = Null
    /\ IdleMotion /\ IdleComp /\ IdleConf /\ IdleApply

SpecNames == InitNames /\ [][NextRef]_vars

\* ======================================================= applyTransforms
\* frame f of the input holds f in its only voxel; parameter c of the
\* transform of frame f is 100 f + c
BoldSeries == {[shape |-> <<1, 1, 1, t>>,
                data |-> [i \in Indices(<<1, 1, 1, t>>) |-> 2 * i[4]]] :
                  t \in 1..MaxApplyFrames}
XformSeries == {[shape |-> <<1, 1, 1, t, k>>,
                 data |-> [i \in Indices(<<1, 1, 1, t, k>>) |-> 100 * i[4] + i[5]]] :
                   t \in 1..MaxApplyFrames, k \in 1..MaxCandidates}

InitApply ==
    /\ pc = "applyTransforms"
    /\ exc = NoExc
    /\ fs = NoFiles
    /\ \E nm \in BoldNames, im \in BoldSeries :
          in_file = [name |-> nm, img |-> im]
    /\ xforms \in XformSeries
    /\ use_fieldwarp \in BOOLEAN
    /\ num_volumes = 0
    /\ bold_volumes = <<>> /\ split_xform = <<>> /\ warped_volumes = <<>>
    /\ x_index = 0 /\ at = Null /\ resample_calls = <<>> /\ stdout = <<>>
    /\ out_files = Null
    /\ volumes = <<>> /\ out_file = Null
    /\ IdleMotion /\ IdleComp /\ IdleConf /\ IdleRef

Unpacked(ret) == IF ret.kind = "None"
                 THEN Raise("TypeError", "cannot unpack None") ELSE ret

\* the two split_volumes calls and the construction of ApplyTransforms
ApplySplit ==
    /\ pc = "applyTransforms"
    /\ LET b == split_volumes(fs, in_file.img, "bold_")
           xf == split_volumes(b.files, xforms, "xform_")
           failure == IF IsRaise(Unpacked(b.ret)) THEN Unpacked(b.ret)
                      ELSE IF IsRaise(Unpacked(xf.ret)) THEN Unpacked(xf.ret)
                      ELSE IF Len(b.ret.val.volumes) = 0
                      THEN Raise("IndexError", "bold_volumes[0]")
                      ELSE NoExc
       IN IF IsRaise(failure)
          THEN /\ exc' = failure /\ pc' = "failed"
               /\ fs' = IF IsRaise(Unpacked(b.ret)) THEN b.files ELSE xf.files
               /\ UNCHANGED <<bold_volumes, split_xform, num_volumes, at>>
          ELSE /\ fs' = xf.files
               /\ bold_volumes' = b.ret.val.volumes
               /\ split_xform' = xf.ret.val.volumes
               /\ num_volumes' = xf.ret.val.num_volumes
               /\ at' = [reference_image |-> b.ret.val.volumes[1],
                         input_image |-> <<>>, output_image |-> <<>>,
                         transforms |-> <<>>]
               /\ pc' = "for_x"
               /\ UNCHANGED exc
    /\ UNCHANGED <<in_file, xforms, use_fieldwarp, warped_volumes, x_index,
                   resample_calls, stdout, out_files, restApply>>

\* one pass of `for x in range(0, num_volumes)`
ApplyFrame ==
    /\ pc = "for_x"
    /\ x_index < num_volumes
    /\ IF x_index + 1 > Len(bold_volumes)
       THEN /\ exc' = Raise("IndexError", "bold_volumes[x]")
            /\ pc' = "failed"
            /\ UNCHANGED <<fs, warped_volumes, x_index, at, resample_calls,
                           stdout>>
       ELSE \E status \in {0, 1} :
            LET inputs == [at EXCEPT
                              !.input_image = bold_volumes[x_index + 1],
                              !.output_image = warped_vol_fname(x_index),
                              !.transforms = transforms_of(use_fieldwarp,
                                                split_xform, x_index)]
                res == resample_result(status, inputs)
            IN /\ at' = inputs
               /\ warped_volumes' = Append(warped_volumes,
                                           warped_vol_fname(x_index))
               /\ resample_calls' = Append(resample_calls,
                        [x |-> x_index, inputs |-> inputs, status |-> status])
               /\ IF IsRaise(res)
                  THEN /\ exc' = res /\ pc' = "failed"
                       /\ UNCHANGED <<fs, x_index, stdout>>
                  ELSE /\ fs' = Write(fs, inputs.output_image,
                                [resampled |-> fs[inputs.input_image],
                                 motion |-> fs[inputs.transforms[1]],
                                 transforms |-> inputs.transforms])
                       /\ stdout' = Append(stdout,
                                <<"Resampled volume ">> \o str(x_index + 1))
                       /\ x_index' = x_index + 1
                       /\ UNCHANGED <<exc, pc>>
    /\ UNCHANGED <<in_file, num_volumes, xforms, use_fieldwarp, bold_volumes,
                   split_xform, out_files, restApply>>

\* setattr(self, 'out_files', warped_volumes) after the loop
ApplyFinish ==
    /\ pc = "for_x"
    /\ x_index >= num_volumes
    /\ out_files' = warped_volumes
    /\ pc' = "done"
    /\ UNCHANGED <<exc, fs, in_file, num_volumes, xforms, use_fieldwarp,
                   bold_volumes, split_xform, warped_volumes, x_index, at,
                   resample_calls, stdout, restApply>>

NextApply == ApplySplit \/ ApplyFrame \/ ApplyFinish
SpecApply == InitApply /\ [][NextApply]_vars

\* C2: motion_24_params returns t rows of 24 columns: column i the raw
\* parameter, column 6+i the parameter one frame earlier (frame 0 keeps its
\* own value), column 12+i the square of column i, column 18+i the square of
\* column 6+i.
C2_Motion24 ==
    pc = "done" =>
        /\ Len(motion_24) = FileFrames
        /\ \A r \in 0..(FileFrames - 1) :
            /\ DOMAIN motion_24[r + 1] = 1..24
            /\ \A i \in 0..5 :
                LET row == motion_24[r + 1]
                IN /\ row[i + 1] = FileParam(r, i)
                   /\ row[6 + i + 1] = IF r = 0 THEN FileParam(0, i)
                                       ELSE FileParam(r - 1, i)
                   /\ row[12 + i + 1] = row[i + 1] * row[i + 1]
                   /\ row[18 + i + 1] = row[6 + i + 1] * row[6 + i + 1]

\* a table of several frames whose first frame moved has been expanded
W_C2 == /\ pc = "done" /\ FileFrames >= 2
        /\ FileParam(0, 0) # 0 /\ FileParam(0, 0) # FileParam(1, 0)
        /\ Len(motion_24) = FileFrames

\* C10: under method '50%' compute_aCompCor returns the smallest k >= 1 whose
\* k largest explained-variance ratios add up to strictly more than 0.5 (a
\* sum of exactly 0.5 does not stop the selection), never reads past the last
\* ratio, and the component table it returns has k columns.
C10_VarianceThreshold ==
    (method = "50%" /\ pc # "compute_aCompCor") =>
        /\ pc = "done"
        /\ LET k == aCompCor.num_comp
           IN /\ k >= 1 /\ k <= Len(explained_variance)
              /\ 2 * Sum(explained_variance, k) > VarUnits
              /\ \A j \in 1..(k - 1) : 2 * Sum(explained_variance, j) <= VarUnits
              /\ aCompCor.comp_timeseries.cols = k
              /\ aCompCor.comp_timeseries.rows = mask_timeseries.timepoints

\* the first k-1 components explain exactly half of the variance and the
\* selection went on to take the k-th
W_C10 == /\ method = "50%" /\ pc = "done" /\ aCompCor.num_comp >= 2
         /\ 2 * Sum(explained_variance, aCompCor.num_comp - 1) = VarUnits
         /\ aCompCor.comp_timeseries.cols = aCompCor.num_comp

\* the data columns that come from one source
ColumnsFrom(what) == {c \in 1..Len(confounds) : confounds[c].from = what}
nWM == Cardinality(ColumnsFrom("WM_aCompCor"))
nCSF == Cardinality(ColumnsFrom("CSF_aCompCor"))
SameFrameCount == bold.frames = FileFrames
\* the sources of the data columns in the order of the contract
ContractOrder ==
    <<"WM_signal">> \o [c \in 1..nWM |-> "WM_aCompCor"] \o <<"CSF_signal">>
    \o [c \in 1..nCSF |-> "CSF_aCompCor"] \o <<"global_signal">>
    \o [c \in 1..24 |-> "motion_24"]

\* C1: when all inputs have t frames the table handed to write_confound_csv
\* and written by it has t rows and 1 + nWM + 1 + nCSF + 1 + 24 data columns
\* in the order WM signal, WM components, CSF signal, CSF components, global
\* signal, 24 motion regressors, and the list of column names is as long as
\* the list of data columns.
C1_ConfoundTable ==
    (SameFrameCount /\ pc \in {"write_confound_csv", "done"}) =>
        /\ Len(confounds) = 1 + nWM + 1 + nCSF + 1 + 24
        /\ [c \in 1..Len(confounds) |-> confounds[c].from] = ContractOrder
        /\ \A c \in 1..Len(confounds) : confounds[c].len = bold.frames
        /\ Len(csv_columns) = Len(confounds)
        /\ pc = "done" =>
              /\ fs[confounds_csv].rows = bold.frames
              /\ fs[confounds_csv].cols = Len(confounds)

\* C3: when the motion table and the series differ in frame count the
\* builder ends with an exception, the shape error of the table assembly
\* once the columns are collected, and writes no confound file.
C3_MismatchFails ==
    (bold # Null /\ ~SameFrameCount
        /\ pc \notin {"ConfoundRegression", "write_confound_csv"}) =>
        /\ pc = "failed"
        /\ IsRaise(exc)
        /\ confounds # <<>> =>
              /\ exc.type = "ValueError"
              /\ exc.info \in {"inhomogeneous shape", "Length mismatch"}
        /\ fs = NoFiles
        /\ confounds_csv = Null

\* a 2-frame series with a 3-row motion table got as far as the assembly of
\* the table and failed there
W_C3 == /\ bold # Null /\ bold.frames = 2 /\ FileFrames = 3
        /\ pc = "failed" /\ Len(confounds) >= 5 + 24
        /\ fs = NoFiles

\* C4 as claimed: split_volumes followed by Merge gives back the series, for
\* rank 4 and for rank 5.
C4_RoundTrip ==
    (in_file # Null /\ pc \in {"done", "failed"}) =>
        /\ pc = "done"
        /\ fs[out_file] = in_file.img

\* C4, amended: for every series of rank 4, split_volumes followed by Merge
\* of the frames in order, with the series as header donor, writes a series
\* with the same shape, frame count and order, equal voxel for voxel.
C4_RoundTripRank4 ==
    (in_file # Null /\ Len(in_file.img.shape) = 4
        /\ pc \in {"done", "failed"}) =>
        /\ pc = "done"
        /\ Len(volumes) = in_file.img.shape[4]
        /\ fs[out_file].shape = in_file.img.shape
        /\ \A i \in Indices(in_file.img.shape) :
              fs[out_file].data[i] = in_file.img.data[i]

\* a rank-4 series whose two frames differ was split and merged
W_C4 == /\ in_file # Null /\ pc = "done"
        /\ in_file.img.shape = <<2, 1, 1, 2>>
        /\ in_file.img.data[<<1, 1, 1, 1>>] # in_file.img.data[<<1, 1, 1, 2>>]
        /\ out_file \in DOMAIN fs

\* an element is an outlier when its modified z-score 0.6745*|x - median|/MAD
\* exceeds 3.5 (with a zero MAD: when it differs from the median)
Flagged(points, i) ==
    /\ diff2(points)[i] > 0
    /\ 2 * 6745 * diff2(points)[i] > 35000 * mad4(points)
LeadingRun(points) ==
    Cardinality({i \in DOMAIN points : \A j \in 1..i : Flagged(points, j)})

\* C5: the count returned for a trace is the length of its leading run of
\* outliers: 0 when the first element is no outlier, 0 for a trace of fewer
\* than 2 elements, 3 for [100,100,100,10,10,10,10].
C5_LeadingRun ==
    pc = "done" =>
        /\ n_volumes_to_discard = LeadingRun(global_signal)
        /\ Len(global_signal) < 2 => n_volumes_to_discard = 0
        /\ global_signal = <<100, 100, 100, 10, 10, 10, 10>> =>
              n_volumes_to_discard = 3

RefGridCells == Indices(RefGrid)
\* twice the median, over the given frames of the input, of voxel i
InputMedian2(i, frames) ==
    median2([f \in 1..frames |-> in_file.img.data[Append(i, f)]])

\* C6: when the count n of dummy volumes is positive, the reference image
\* is the voxel-wise median of the first n frames of the input and the
\* run ends without any invocation of the motion-correction solver.
C6_DummyBranch ==
    (pc # "EstimateReferenceImage" /\ n_volumes_to_discard > 0) =>
        /\ pc = "done"
        /\ solver_calls = <<>>
        /\ dirs = {}
        /\ ref_image = out_ref_fname(in_file.name)
        /\ skip_vols = n_volumes_to_discard
        /\ n_volumes_to_discard <= in_file.img.shape[4]
        /\ fs[ref_image].shape = RefGrid
        /\ \A i \in RefGridCells :
              2 * fs[ref_image].data[i] = InputMedian2(i, n_volumes_to_discard)

\* one dummy volume at the head of a series of four frames
W_C6 == /\ pc = "done" /\ n_volumes_to_discard = 1
        /\ in_file.img.shape[4] = 4
        /\ in_file.img.data[<<1, 1, 1, 1>>] # in_file.img.data[<<1, 1, 1, 2>>]
        /\ ref_image \in DOMAIN fs

SolverFailed == \E c \in 1..Len(solver_calls) : solver_calls[c].status # 0

\* C7: once the solver has reported a nonzero status, in the first or in
\* the second pass, the run has failed with an exception, no reference
\* image file exists and neither output attribute is set.
C7_SolverFailure ==
    SolverFailed =>
        /\ pc = "failed"
        /\ IsRaise(exc)
        /\ out_ref_fname(in_file.name) \notin DOMAIN fs
        /\ ref_image = Null
        /\ skip_vols = Null

\* the second pass failed after the solver had left a series behind
W_C7 == /\ Len(solver_calls) = 2
        /\ solver_calls[1].status = 0 /\ solver_calls[2].status # 0
        /\ <<ScratchDir, "motcorr.nii.gz">> \in DOMAIN fs
        /\ pc = "failed"

InputFrames == in_file.img.shape[4]

\* C8: the list of output frames has one entry for each of the t frames of
\* the input, entry i is frame i resampled with transform i, in temporal
\* order and each at its own path, whatever the frame count of the
\* transform series.
C8_OneOutputPerFrame ==
    pc = "done" =>
        /\ Len(out_files) = InputFrames
        /\ \A i \in 0..(InputFrames - 1) :
              /\ out_files[i + 1] \in DOMAIN fs
              /\ fs[out_files[i + 1]].resampled = frame_of_4d(in_file.img, i)
              /\ fs[out_files[i + 1]].motion = frame_of_5d(xforms, i)
        /\ \A i, j \in 1..Len(out_files) :
              i # j => out_files[i] # out_files[j]

ResampleFailed ==
    \E c \in 1..Len(resample_calls) : resample_calls[c].status # 0

\* C9: once the resampler has failed on a frame the run has failed, the
\* out_files attribute is not set, and the exception names the files of the
\* offending frame x: input bold_vol<x>, output deformed_volume<x+1>; the
\* printed lines name the frames done before it.
C9_ResampleFailure ==
    ResampleFailed =>
        /\ pc = "failed"
        /\ out_files = Null
        /\ IsRaise(exc)
        /\ LET failed == resample_calls[Len(resample_calls)]
           IN /\ failed.status # 0
              /\ \A c \in 1..(Len(resample_calls) - 1) :
                    resample_calls[c].status = 0
              /\ failed.x = Len(resample_calls) - 1
              /\ exc.info.input_image = vol_fname("bold_", failed.x)
              /\ exc.info.output_image =
                    <<"deformed_volume">> \o str(failed.x + 1) \o <<".nii.gz">>
              /\ stdout = [k \in 1..failed.x |->
                              <<"Resampled volume ">> \o str(k)]

\* the resampler failed on the second frame, after the first was written
W_C9 == /\ Len(resample_calls) = 2 /\ resample_calls[2].status # 0
        /\ pc = "failed" /\ Len(warped_volumes) = 2
        /\ warped_volumes[1] \in DOMAIN fs

C12_RowWidth ==
    (pc # "motion_24_params"
        /\ \E r \in 2..Len(movpar_csv) : Len(movpar_csv[r]) # 8) =>
            /\ pc = "failed"
            /\ IsRaise(exc)
            /\ motion_24 = Null

InputRank == Len(in_file.img.shape)

\* C13: for an input whose rank is neither 4 nor 5 split_volumes raises an
\* error: it returns no value, writes no volume, and its caller gets no list
\* of volumes.
C13_DimensionError ==
    (pc # "split_volumes" /\ InputRank \notin {4, 5}) =>
        /\ IsRaise(split_volumes(NoFiles, in_file.img, "bold_").ret)
        /\ pc = "failed"
        /\ volumes = <<>>
        /\ fs = NoFiles

\* twice the median over the frames of a series of voxel i
SeriesMedian2(img, i) ==
    median2([f \in 1..img.shape[4] |-> img.data[Append(i, f)]])
IsMedianOf(m, img) ==
    /\ m.shape = SubSeq(img.shape, 1, 3)
    /\ \A i \in Indices(m.shape) : 2 * m.data[i] = SeriesMedian2(img, i)
Candidates == fs[slice_fname]

\* C14: without dummy volumes the solver is never invoked more than twice;
\* the first invocation is pass 1, with the candidate frames and their
\* initial median as target; by the time a second invocation exists it is
\* pass 2, with the same candidates and as target the voxel-wise median of
\* the series pass 1 produced; and a completed run has invoked the solver
\* exactly twice and its reference image is the voxel-wise median of the
\* series pass 2 produced.
C14_TwoPasses ==
    (pc # "EstimateReferenceImage" /\ n_volumes_to_discard = 0) =>
        /\ Len(solver_calls) <= 2
        /\ Len(solver_calls) >= 1 =>
              /\ ~solver_calls[1].second
              /\ solver_calls[1].in_file = Candidates
              /\ solver_calls[1].ref_file = fs[<<"median.nii.gz">>]
        /\ Len(solver_calls) = 2 =>
              /\ solver_calls[1].status = 0
              /\ solver_calls[2].second
              /\ solver_calls[2].in_file = Candidates
              /\ IsMedianOf(solver_calls[2].ref_file, solver_calls[1].out)
        /\ second => Len(solver_calls) >= 1
        /\ pc = "done" =>
              /\ Len(solver_calls) = 2
              /\ solver_calls[2].status = 0
              /\ ref_image = out_ref_fname(in_file.name)
              /\ IsMedianOf(fs[ref_image], solver_calls[2].out)

\* the two passes produced series with different medians and the reference
\* image is the median of the second
W_C14 == /\ pc = "done" /\ n_volumes_to_discard = 0
         /\ Len(solver_calls) = 2
         /\ ~IsMedianOf(fs[ref_image], solver_calls[1].out)
         /\ IsMedianOf(fs[ref_image], solver_calls[2].out)
         /\ solver_calls[2].ref_file # solver_calls[1].ref_file

\* twice the median of voxel i over frames lo..hi-1 (counted from 0) of the
\* input series
WindowMedian2(i, lo, hi) ==
    median2([f \in 1..(hi - lo) |-> in_file.img.data[Append(i, lo + f)]])
InitialTarget == fs[<<"median.nii.gz">>]

\* C15: without dummy volumes the initial target is the voxel-wise median
\* of frames 20..39 when the series has at least 40 frames, a series of
\* exactly 40 frames included, and otherwise the median of all its frames
\* (at most the first 50).
C15_InitialTarget ==
    (pc # "EstimateReferenceImage" /\ n_volumes_to_discard = 0) =>
        /\ InitialTarget.shape = RefGrid
        /\ \A i \in RefGridCells :
              2 * InitialTarget.data[i] =
                  IF InputFrames >= 40 THEN WindowMedian2(i, 20, 40)
                  ELSE WindowMedian2(i, 0, Min(50, InputFrames))

ScratchFiles == {q \in DOMAIN fs : q[1] = ScratchDir}
FirstOutput == <<FirstScratchDir, "motcorr.nii.gz">>
SecondOutput == <<ScratchDir, "motcorr.nii.gz">>
Renamed == "first_ants_mc_tmp" \in dirs

\* C16: when the solver of pass 2 is about to write, ants_mc_tmp exists and
\* holds no file; from the rename on, the series pass 1 produced is kept as
\* it was under first_ants_mc_tmp, also after pass 2 has written its own
\* into ants_mc_tmp; the rename comes only after the median of pass 1's
\* series has been written, and before pass 2's invocation.
C16_ScratchPerPass ==
    /\ (pc = "solver" /\ second) =>
          /\ ScratchFiles = {}
          /\ "ants_mc_tmp" \in dirs
          /\ Renamed
    /\ Renamed =>
          /\ second
          /\ Len(solver_calls) >= 1
          /\ solver_calls[1].status = 0
          /\ FirstOutput \in DOMAIN fs
          /\ fs[FirstOutput] = solver_calls[1].out
          /\ <<"tmp_median.nii.gz">> \in DOMAIN fs
          /\ IsMedianOf(fs[<<"tmp_median.nii.gz">>], solver_calls[1].out)
    /\ Len(solver_calls) = 2 =>
          /\ Renamed
          /\ solver_calls[2].out # Null =>
                /\ SecondOutput \in DOMAIN fs
                /\ fs[SecondOutput] = solver_calls[2].out

\* pass 2 has written a series that differs from that of pass 1, which is
\* still there under first_ants_mc_tmp
W_C16 == /\ Len(solver_calls) = 2
         /\ solver_calls[2].out # Null
         /\ solver_calls[2].out # solver_calls[1].out
         /\ FirstOutput \in DOMAIN fs /\ SecondOutput \in DOMAIN fs
         /\ fs[FirstOutput] = solver_calls[1].out
         /\ fs[SecondOutput] = solver_calls[2].out

\* C17: the c-th invocation of the resampler is the only one for frame c-1;
\* its chain starts with the motion transform of that frame, the file
\* xform_vol<c-1> holding frame c-1 of the transform series, followed by the
\* distortion field when use_fieldwarp is set and by nothing when it is
\* not; a completed run has invoked the resampler once for each frame of the
\* loop.
C17_TransformChain ==
    /\ \A c \in 1..Len(resample_calls) :
          LET call == resample_calls[c]
              chain == call.inputs.transforms
          IN /\ call.x = c - 1
             /\ call.inputs.input_image = vol_fname("bold_", call.x)
             /\ chain[1] = vol_fname("xform_", call.x)
             /\ fs[chain[1]] = frame_of_5d(xforms, call.x)
             /\ use_fieldwarp => chain = <<chain[1], FieldWarp>>
             /\ ~use_fieldwarp => chain = <<chain[1]>>
    /\ pc = "done" => Len(resample_calls) = num_volumes

\* two frames were resampled with the distortion field, each with its own
\* motion transform
W_C17 == /\ use_fieldwarp /\ Len(resample_calls) >= 2
         /\ resample_calls[1].inputs.transforms[1] #
               resample_calls[2].inputs.transforms[1]
         /\ resample_calls[2].inputs.transforms[2] = FieldWarp
         /\ fs[resample_calls[2].inputs.transforms[1]] #
               fs[resample_calls[1].inputs.transforms[1]]

\* C18: the reference image of a run is written to a file name that no
\* input file with another subject, session or run identifier maps to.
C18_InjectiveTemplate ==
    pc = "done" =>
        \A nm \in Names :
            nm # in_file.name => out_ref_fname(nm) # ref_image

\* C19: the count n of dummy volumes lies between 0 and min(50, t); it is
\* the outlier count of the global signal of the first min(50, t) frames,
\* one value per frame, so that no frame past the 50th enters it; and when
\* n is positive the reference image is the median of n >= 1 frames, the
\* first n of the input.
C19_DummyCount ==
    pc # "EstimateReferenceImage" =>
        /\ n_volumes_to_discard \in 0..Min(50, InputFrames)
        /\ Len(global_signal) = Min(50, InputFrames)
        /\ \A f \in 1..Len(global_signal) :
              global_signal[f] =
                  in_file.img.data[<<1, 1, 1, f>>] + in_file.img.data[<<2, 1, 1, f>>]
        /\ n_volumes_to_discard = is_outlier(global_signal)
        /\ n_volumes_to_discard > 0 =>
              /\ pc = "done"
              /\ \A i \in RefGridCells :
                    2 * fs[ref_image].data[i] =
                        WindowMedian2(i, 0, n_volumes_to_discard)

\* a series of more than 50 frames whose first frame is a dummy volume
W_C19 == /\ pc = "done" /\ InputFrames > 50
         /\ Len(global_signal) = 50
         /\ n_volumes_to_discard = 1
         /\ ref_image \in DOMAIN fs

=============================================================================
